---- MODULE Spec2Model ----
(***************************************************************************)
(* Circuit breaker of backend/07-error-handling (package circuit).         *)
(*                                                                         *)
(* One Breaker shared by NumProcs goroutines.  Each goroutine may call     *)
(* Call(fn) or Reset().  Call is split where the code blocks on the        *)
(* caller-supplied fn: CallEnter is Lock() plus the switch on cb.state,    *)
(* CallReturn is the bookkeeping after fn returned plus the deferred       *)
(* Unlock(), CallPanic is fn panicking (only the deferred Unlock() runs).  *)
(* Time is an integer clock advanced by Tick.                              *)
(*                                                                         *)
(* WithRetry (package retry) is modelled beside it, under RetrySpec: one   *)
(* call of WithRetry, a loop iteration per step, with the result of fn and *)
(* the random number of the jitter drawn at each iteration.  Durations are *)
(* whole numbers of the smallest unit; BackoffFactor is a fraction.        *)
(***************************************************************************)
EXTENDS Integers, FiniteSets, Sequences, TLC

\* ---------------------------------------------------------------- bounds
NumProcs == 2
MaxThreshold == 2
MaxTimeout == 1
MaxTime == 5
\* retry: largest MaxAttempts, BaseDelay and MaxDelay drawn, and the number
\* of values rand.Float64 is drawn from (k / JitterSteps, k < JitterSteps)
MaxRetryAttempts == 3
MaxBaseDelay == 3
MaxMaxDelay == 4
JitterSteps == 4
LongDelay == 20

\* Highest value cb.failures may reach in the model (a failing fn is not
\* drawn beyond it); leaves room for failed probes above every threshold.
FailCap == MaxThreshold + 2

\* ------------------------------------------------------------- constants
\* type State: Closed, Open, HalfOpen (iota order)
Closed == "closed"
Open == "open"
HalfOpen == "half-open"
States == {Closed, Open, HalfOpen}

\* successes required in HalfOpen to close the breaker
SuccessThreshold == 3

\* the zero time.Time a fresh Breaker holds in lastFailTime
ZeroTime == -1
\* time.Since(zero time) saturates at the largest Duration
Forever == MaxTime + MaxTimeout + 1

Procs == 1..NumProcs
NoHolder == 0

\* results of fn: nil or one of two distinct error values
Nil == "nil"
Errs == {"errA", "errB"}
OpResults == {Nil} \cup Errs
\* fmt.Errorf("circuit breaker is open for %s", cb.name)
ErrOpen == "circuit breaker is open"

VARIABLES
    cb,            \* the Breaker's fields
    mutex,         \* holder of cb.mutex's write lock, NoHolder when free
    pc,            \* per goroutine: "idle" or "fn" (inside fn, in Call)
    now,           \* the clock read by time.Now / time.Since
    call,          \* history: the most recent Call or Reset
    consecFails,   \* history: failing Calls in a row since Closed with failures = 0
    probeOk,       \* history: successful Calls in a row since Open -> HalfOpen
    probeFailedAt, \* history: time of the failed HalfOpen Call that opened the breaker
    sinceSuccess,  \* history: failing fn since the last successful fn or Reset
    sinceClear,    \* history: failing fn since the last success that was made
                   \* while Closed or that closed the breaker, or Reset
    obs,           \* history: what the accessor of the latest step returned
    config,        \* WithRetry: its RetryConfig
    attempt,       \* WithRetry: the loop variable
    lastErr,       \* WithRetry: lastErr
    rpc,           \* WithRetry: "off", "loop", "sleep", "done" or "panicked"
    delay,         \* WithRetry: the delay being slept
    result,        \* WithRetry: what it returned
    trace,         \* history: the results of fn, one per invocation
    slept,         \* history: the delays slept, in order
    sim            \* simulateDBErrorHandler, per goroutine: where it is, its
                   \* loop variable i and the circuit_state of its response

bvars == <<cb, mutex, pc, now, call, consecFails, probeOk, probeFailedAt,
           sinceSuccess, sinceClear, obs>>
rvars == <<config, attempt, lastErr, rpc, delay, result, trace, slept>>
hvars == <<sim>>
vars == <<bvars, rvars, hvars>>

\* ------------------------------------------------------- pure operators
New(mf, rt) ==
    [maxFailures |-> mf, resetTimeout |-> rt, state |-> Closed,
     failures |-> 0, lastFailTime |-> ZeroTime, successCount |-> 0]

Since(t, clock) == IF t = ZeroTime THEN Forever ELSE clock - t

TimeoutElapsed_AtTimeout(b, clock) == Since(b.lastFailTime, clock) >= b.resetTimeout
TimeoutElapsed(b, clock) == Since(b.lastFailTime, clock) > b.resetTimeout

\* case Open, else branch: return the breaker-open error
Rejects(b, clock) == b.state = Open /\ ~TimeoutElapsed(b, clock)

OnReject_CountsFailure(b, clock) == [b EXCEPT !.failures = b.failures + 1]
OnReject_Postpones(b, clock) == [b EXCEPT !.lastFailTime = clock]
\* the fields after a rejected Call: the else branch only returns
OnReject(b, clock) == b

BeforeFn_KeepsSuccessCount(b, clock) ==
    IF b.state = Open /\ TimeoutElapsed(b, clock)
    THEN [b EXCEPT !.state = HalfOpen]
    ELSE b
\* the switch, for a Call that goes on to invoke fn
BeforeFn(b, clock) ==
    IF b.state = Open /\ TimeoutElapsed(b, clock)
    THEN [b EXCEPT !.state = HalfOpen, !.successCount = 0]
    ELSE b

OnFailure_OffByOne(b, clock) ==
    LET f == b.failures + 1 IN
    [b EXCEPT !.failures = f,
              !.lastFailTime = clock,
              !.state = IF b.state = HalfOpen \/ f > b.maxFailures
                        THEN Open ELSE b.state]
OnFailure_ResetsSuccessCount(b, clock) ==
    LET f == b.failures + 1 IN
    [b EXCEPT !.failures = f,
              !.lastFailTime = clock,
              !.successCount = 0,
              !.state = IF b.state = HalfOpen \/ f >= b.maxFailures
                        THEN Open ELSE b.state]
OnFailure_StaleFailTime(b, clock) ==
    LET f == b.failures + 1 IN
    [b EXCEPT !.failures = f,
              !.state = IF b.state = HalfOpen \/ f >= b.maxFailures
                        THEN Open ELSE b.state]
\* fn returned an error
OnFailure(b, clock) ==
    LET f == b.failures + 1 IN
    [b EXCEPT !.failures = f,
              !.lastFailTime = clock,
              !.state = IF b.state = HalfOpen \/ f >= b.maxFailures
                        THEN Open ELSE b.state]

OnSuccess_ClosesOnSecond(b) ==
    IF b.state = HalfOpen
    THEN LET s == b.successCount + 1 IN
         IF s >= SuccessThreshold - 1
         THEN [b EXCEPT !.successCount = s, !.state = Closed, !.failures = 0]
         ELSE [b EXCEPT !.successCount = s]
    ELSE [b EXCEPT !.failures = 0]
OnSuccess_AlwaysClearsFailures(b) ==
    IF b.state = HalfOpen
    THEN LET s == b.successCount + 1 IN
         IF s >= SuccessThreshold
         THEN [b EXCEPT !.successCount = s, !.state = Closed, !.failures = 0]
         ELSE [b EXCEPT !.successCount = s, !.failures = 0]
    ELSE [b EXCEPT !.failures = 0]
OnSuccess_ClosesOnFirst(b) ==
    IF b.state \in {HalfOpen, Open}
    THEN [b EXCEPT !.successCount = b.successCount + 1, !.state = Closed,
                   !.failures = 0]
    ELSE [b EXCEPT !.failures = 0]
OnSuccess_NeverClearsFailures(b) ==
    IF b.state = HalfOpen
    THEN LET s == b.successCount + 1 IN
         IF s >= SuccessThreshold
         THEN [b EXCEPT !.successCount = s, !.state = Closed, !.failures = 0]
         ELSE [b EXCEPT !.successCount = s]
    ELSE b
\* fn returned nil
OnSuccess(b) ==
    IF b.state = HalfOpen
    THEN LET s == b.successCount + 1 IN
         IF s >= SuccessThreshold
         THEN [b EXCEPT !.successCount = s, !.state = Closed, !.failures = 0]
         ELSE [b EXCEPT !.successCount = s]
    ELSE [b EXCEPT !.failures = 0]

CallResult_Swallows(r) == Nil
\* what Call returns after fn returned r
CallResult(r) == IF r # Nil THEN r ELSE Nil

ResetFields_KeepsFailures(b) == [b EXCEPT !.state = Closed, !.successCount = 0]
ResetFields_KeepsSuccessCount(b) == [b EXCEPT !.state = Closed, !.failures = 0]
ResetFields(b) == [b EXCEPT !.state = Closed, !.failures = 0, !.successCount = 0]

RLockFree_NoMutex(m) == TRUE
\* cb.mutex.RLock() goes through only when no writer holds the lock
RLockFree(m) == m = NoHolder

\* GetState's switch
StateName(st) ==
    CASE st = Closed -> "closed"
      [] st = Open -> "open"
      [] st = HalfOpen -> "half-open"
      [] OTHER -> "unknown"

LockFree_NoMutex(m) == TRUE
\* cb.mutex.Lock() goes through only when nobody holds the lock
LockFree(m) == m = NoHolder

Fields(b) ==
    [state |-> b.state, failures |-> b.failures,
     lastFailTime |-> b.lastFailTime, successCount |-> b.successCount]

NoCall ==
    [kind |-> "none", status |-> "none", pre |-> Fields(New(0, 0)), time |-> 0,
     invoked |-> 0, fnState |-> "none", opres |-> "none", ret |-> "none"]

\* ---------------------------------------------------- retry: operators
\* BackoffFactor values drawn: 0.5, 1, 1.5 and 2, as fractions
Factors ==
    {[num |-> 1, den |-> 2], [num |-> 1, den |-> 1],
     [num |-> 3, den |-> 2], [num |-> 2, den |-> 1]}

RetryConfig(n, base, max, factor, jitter) ==
    [MaxAttempts |-> n, BaseDelay |-> base, MaxDelay |-> max,
     BackoffFactor |-> factor, Jitter |-> jitter]

\* BaseDelay and MaxDelay values drawn: the short ones and one long enough
\* for a tenth of it to be more than a whole Duration
BaseDelays == 0..MaxBaseDelay \cup {LongDelay}
MaxDelays == 0..MaxMaxDelay \cup {LongDelay}

Configs ==
    {RetryConfig(n, base, max, f, jit) :
        n \in -1..MaxRetryAttempts, base \in BaseDelays,
        max \in MaxDelays, f \in Factors, jit \in BOOLEAN}

\* the config WithRetry is not running with
DefaultConfig == RetryConfig(0, 0, 0, [num |-> 1, den |-> 1], FALSE)

OperationName == "operation"

RECURSIVE Pow(_, _)
Pow(x, n) == IF n <= 0 THEN 1 ELSE x * Pow(x, n - 1)

Min(a, b) == IF a <= b THEN a ELSE b

BackoffDelay_ExponentOffByOne(cfg, n) ==
    [num |-> cfg.BaseDelay * Pow(cfg.BackoffFactor.num, n),
     den |-> Pow(cfg.BackoffFactor.den, n)]
\* float64(BaseDelay) * math.Pow(BackoffFactor, attempt-1), as a fraction
BackoffDelay(cfg, n) ==
    [num |-> cfg.BaseDelay * Pow(cfg.BackoffFactor.num, n - 1),
     den |-> Pow(cfg.BackoffFactor.den, n - 1)]

ClampDelay_NoClamp(cfg, d) == d
\* if delay > float64(MaxDelay) { delay = float64(MaxDelay) }
ClampDelay(cfg, d) ==
    IF d.num > cfg.MaxDelay * d.den THEN [num |-> cfg.MaxDelay, den |-> 1] ELSE d

AddJitter_Fifth(d, k) ==
    [num |-> d.num * (5 * JitterSteps + 2 * k - JitterSteps),
     den |-> d.den * 5 * JitterSteps]
\* delay += (rand - 0.5) * 2 * (delay * 0.1), with rand = k / JitterSteps
AddJitter(d, k) ==
    [num |-> d.num * (10 * JitterSteps + 2 * k - JitterSteps),
     den |-> d.den * 10 * JitterSteps]

\* time.Duration(delay): the fraction is cut off (delays are not negative)
ToDuration(d) == d.num \div d.den

calculateBackoffDelay(cfg, n, k) ==
    LET d == ClampDelay(cfg, BackoffDelay(cfg, n)) IN
    ToDuration(IF cfg.Jitter THEN AddJitter(d, k) ELSE d)

\* the values rand.Float64 can take, as numerators over JitterSteps
Rands(cfg) == IF cfg.Jitter THEN 0..(JitterSteps - 1) ELSE {0}

LoopContinues_AtLeastOnce(cfg, n) == n = 1 \/ n <= cfg.MaxAttempts
\* for attempt := 1; attempt <= config.MaxAttempts; attempt++
LoopContinues(cfg, n) == n <= cfg.MaxAttempts

AfterAttempt_BreakBeforeSuccess(cfg, n, r) ==
    IF n = cfg.MaxAttempts THEN "break"
    ELSE IF r = Nil THEN "return"
    ELSE "sleep"
AfterAttempt_NoBreak(cfg, n, r) ==
    IF r = Nil THEN "return" ELSE "sleep"
\* what the loop body does once fn returned r
AfterAttempt(cfg, n, r) ==
    IF r = Nil THEN "return"
    ELSE IF n = cfg.MaxAttempts THEN "break"
    ELSE "sleep"

NextLastErr_KeepsFirst(old, r) == IF old = Nil THEN r ELSE old
\* lastErr = fn()
NextLastErr(old, r) == r

\* return nil
NoError == [kind |-> "nil"]

\* fmt.Errorf("operation %s failed after %d attempts: %w", ...)
Exhausted(cfg, err) ==
    [kind |-> "exhausted", operation |-> OperationName,
     attempts |-> cfg.MaxAttempts, wraps |-> err]

NoObs == [acc |-> "none", value |-> "none", quiet |-> "none", midCall |-> FALSE]

\* no goroutine is in simulateDBErrorHandler
NoSim == [p \in Procs |-> [at |-> "off", i |-> 0, circuit_state |-> "none"]]

\* ------------------------------------------------------------------ Init
BreakerInit(thresholds, timeouts) ==
    /\ \E mf \in thresholds, rt \in timeouts : cb = New(mf, rt)
    /\ mutex = NoHolder
    /\ pc = [p \in Procs |-> "idle"]
    /\ now = 0
    /\ call = NoCall
    /\ consecFails = 0
    /\ probeOk = -1
    /\ probeFailedAt = -1
    /\ sinceSuccess = 0
    /\ sinceClear = 0
    /\ obs = NoObs

RetryInit(configs, at) ==
    /\ config \in configs
    /\ attempt = 1
    /\ lastErr = Nil
    /\ rpc = at
    /\ delay = 0
    /\ result = [kind |-> "none"]
    /\ trace = <<>>
    /\ slept = <<>>

\* the breaker in use, no WithRetry running
Init ==
    /\ BreakerInit(0..MaxThreshold, -1..MaxTimeout)
    /\ RetryInit({DefaultConfig}, "off")
    /\ sim = NoSim

\* history bookkeeping shared by the actions
RunAfter(b, failed) ==
    IF b.state = Closed /\ b.failures = 0 THEN 0
    ELSE IF failed /\ consecFails >= 0 THEN consecFails + 1
    ELSE -1

\* --------------------------------------------------------------- actions
\* Call, up to the invocation of fn
CallBegin(p) ==
    /\ pc[p] = "idle"
    /\ LockFree(mutex)
    /\ IF Rejects(cb, now)
       THEN /\ call' = [kind |-> "call", status |-> "returned", pre |-> Fields(cb),
                        time |-> now, invoked |-> 0, fnState |-> "none",
                        opres |-> "none", ret |-> ErrOpen]
            /\ cb' = OnReject(cb, now)
            /\ UNCHANGED <<mutex, pc, probeOk>>
       ELSE /\ cb' = BeforeFn(cb, now)
            /\ mutex' = p
            /\ pc' = [pc EXCEPT ![p] = "fn"]
            /\ call' = [kind |-> "call", status |-> "running", pre |-> Fields(cb),
                        time |-> now, invoked |-> 1, fnState |-> cb'.state,
                        opres |-> "none", ret |-> "none"]
            /\ probeOk' = IF cb.state = Open THEN 0 ELSE probeOk
    /\ obs' = NoObs
    /\ UNCHANGED <<now, consecFails, probeFailedAt, sinceSuccess, sinceClear>>

CallEnter(p) == CallBegin(p) /\ UNCHANGED <<rvars, hvars>>

\* Call, from the return of fn with result r
CallEnd(p, r) ==
    /\ pc[p] = "fn"
    /\ cb' = IF r # Nil THEN OnFailure(cb, now) ELSE OnSuccess(cb)
    /\ mutex' = NoHolder
    /\ pc' = [pc EXCEPT ![p] = "idle"]
    /\ call' = [call EXCEPT !.status = "returned", !.time = now,
                            !.opres = r, !.ret = CallResult(r)]
    /\ consecFails' = RunAfter(cb', r # Nil)
    /\ probeOk' = IF r = Nil /\ cb.state = HalfOpen /\ probeOk >= 0
                  THEN probeOk + 1 ELSE -1
    /\ probeFailedAt' = IF r # Nil /\ cb.state = HalfOpen THEN now ELSE -1
    /\ sinceSuccess' = IF r # Nil THEN sinceSuccess + 1 ELSE 0
    /\ sinceClear' = IF r # Nil THEN sinceClear + 1
                     ELSE IF cb.state = Closed \/ cb'.state = Closed THEN 0
                     ELSE sinceClear
    /\ obs' = NoObs
    /\ UNCHANGED now

\* a failing fn is not drawn once cb.failures is at FailCap
CallReturn(p, r) ==
    /\ r # Nil => cb.failures < FailCap
    /\ CallEnd(p, r)
    /\ UNCHANGED <<rvars, hvars>>

\* fn panics: the deferred Unlock runs, nothing else
CallPanic(p) ==
    /\ pc[p] = "fn"
    /\ mutex' = NoHolder
    /\ pc' = [pc EXCEPT ![p] = "idle"]
    /\ call' = [call EXCEPT !.status = "panicked", !.time = now]
    /\ consecFails' = RunAfter(cb, FALSE)
    /\ probeOk' = -1
    /\ probeFailedAt' = -1
    /\ obs' = NoObs
    /\ UNCHANGED <<cb, now, sinceSuccess, sinceClear>>
    /\ UNCHANGED <<rvars, hvars>>

ResetBreaker(p) ==
    /\ pc[p] = "idle"
    /\ LockFree(mutex)
    /\ cb' = ResetFields(cb)
    /\ call' = [kind |-> "reset", status |-> "returned", pre |-> Fields(cb),
                time |-> now, invoked |-> 0, fnState |-> "none",
                opres |-> "none", ret |-> "none"]
    /\ consecFails' = RunAfter(cb', FALSE)
    /\ probeOk' = -1
    /\ probeFailedAt' = -1
    /\ sinceSuccess' = 0
    /\ sinceClear' = 0
    /\ obs' = NoObs
    /\ UNCHANGED <<mutex, pc, now>>

Reset(p) == ResetBreaker(p) /\ UNCHANGED <<rvars, hvars>>

ClockTick ==
    /\ now < MaxTime
    /\ now' = now + 1
    /\ obs' = NoObs
    /\ UNCHANGED <<cb, mutex, pc, call, consecFails, probeOk, probeFailedAt,
                   sinceSuccess, sinceClear>>

Tick == ClockTick /\ UNCHANGED <<rvars, hvars>>

\* the fields as they were when no Call was between its decision and its
\* bookkeeping
Quiescent == IF \A p \in Procs : pc[p] = "idle" THEN Fields(cb) ELSE call.pre

\* an accessor: RLock, read one field, RUnlock
Observe(p, name, value, quiet) ==
    /\ pc[p] = "idle"
    /\ RLockFree(mutex)
    /\ obs' = [acc |-> name, value |-> value, quiet |-> quiet,
               midCall |-> \E q \in Procs : pc[q] = "fn"]
    /\ UNCHANGED <<cb, mutex, pc, now, call, consecFails, probeOk, probeFailedAt,
                   sinceSuccess, sinceClear>>
    /\ UNCHANGED <<rvars, hvars>>

GetState(p) ==
    Observe(p, "GetState", StateName(cb.state), StateName(Quiescent.state))
GetFailures(p) ==
    Observe(p, "GetFailures", cb.failures, Quiescent.failures)
GetLastFailTime(p) ==
    Observe(p, "GetLastFailTime", cb.lastFailTime, Quiescent.lastFailTime)
GetSuccessCount(p) ==
    Observe(p, "GetSuccessCount", cb.successCount, Quiescent.successCount)

Next ==
    \/ \E p \in Procs : CallEnter(p)
    \/ \E p \in Procs, r \in OpResults : CallReturn(p, r)
    \/ \E p \in Procs : CallPanic(p)
    \/ \E p \in Procs : Reset(p)
    \/ Tick

Spec == Init /\ [][Next]_vars

\* Calls and Resets together with concurrent accessors
AccNext ==
    \/ Next
    \/ \E p \in Procs : GetState(p)
    \/ \E p \in Procs : GetFailures(p)
    \/ \E p \in Procs : GetLastFailTime(p)
    \/ \E p \in Procs : GetSuccessCount(p)

AccSpec == Init /\ [][AccNext]_vars

\* -------------------------------------------------------- retry: actions
\* one iteration of the loop: fn returns r; rand.Float64 returns k / JitterSteps
AttemptStep(r, k) ==
    /\ rpc = "loop"
    /\ LoopContinues(config, attempt)
    /\ lastErr' = NextLastErr(lastErr, r)
    /\ trace' = Append(trace, r)
    /\ LET todo == AfterAttempt(config, attempt, r) IN
       CASE todo = "return" ->
              /\ result' = NoError
              /\ rpc' = "done"
              /\ UNCHANGED delay
         [] todo = "break" ->
              /\ result' = Exhausted(config, lastErr')
              /\ rpc' = "done"
              /\ UNCHANGED delay
         [] OTHER ->
              /\ delay' = calculateBackoffDelay(config, attempt, k)
              /\ rpc' = "sleep"
              /\ UNCHANGED result
    /\ UNCHANGED <<config, attempt, slept>>

RetryAttempt(r, k) == AttemptStep(r, k) /\ UNCHANGED <<bvars, hvars>>

\* time.Sleep(delay) returns; attempt++
SleepStep ==
    /\ rpc = "sleep"
    /\ slept' = Append(slept, delay)
    /\ attempt' = attempt + 1
    /\ rpc' = "loop"
    /\ UNCHANGED <<config, lastErr, delay, result, trace>>

RetrySleep == SleepStep /\ UNCHANGED <<bvars, hvars>>

\* the loop condition is false: the return after the loop
RetryLoopExit ==
    /\ rpc = "loop"
    /\ ~LoopContinues(config, attempt)
    /\ result' = Exhausted(config, lastErr)
    /\ rpc' = "done"
    /\ UNCHANGED <<config, attempt, lastErr, delay, trace, slept>>
    /\ UNCHANGED <<bvars, hvars>>

\* fn panics: WithRetry does not return
RetryPanic ==
    /\ rpc = "loop"
    /\ LoopContinues(config, attempt)
    /\ rpc' = "panicked"
    /\ UNCHANGED <<config, attempt, lastErr, delay, result, trace, slept>>
    /\ UNCHANGED <<bvars, hvars>>

RetryNext ==
    \/ \E r \in OpResults, k \in Rands(config) : RetryAttempt(r, k)
    \/ RetrySleep
    \/ RetryLoopExit
    \/ RetryPanic

\* one call of WithRetry, the breaker left alone
RetrySpecInit ==
    /\ BreakerInit({1}, {0})
    /\ RetryInit(Configs, "loop")
    /\ sim = NoSim

RetrySpec == RetrySpecInit /\ [][RetryNext]_vars

TypeOK ==
    /\ cb.state \in States
    /\ cb.failures \in 0..FailCap
    /\ cb.successCount \in 0..SuccessThreshold
    /\ mutex \in Procs \cup {NoHolder}
    /\ now \in 0..MaxTime
    /\ cb.lastFailTime \in {ZeroTime} \cup 0..now
    /\ \A p \in Procs : pc[p] = "fn" <=> mutex = p

\* Callers keep calling and the clock keeps running.
LiveSpec ==
    /\ Spec
    /\ WF_vars(Tick)
    /\ WF_vars(\E p \in Procs : CallEnter(p))

\* ---------------------------------------------------------------- claims
NoCallInProgress == \A p \in Procs : pc[p] = "idle"

\* call.time is still the time the Call took the lock
AtDecision == call.kind = "call" /\ (call.status = "running" \/ call.invoked = 0)
Rejected == call.status = "returned" /\ call.invoked = 0 /\ call.ret = ErrOpen
StartedWithinTimeout ==
    AtDecision /\ Since(call.pre.lastFailTime, call.time) <= cb.resetTimeout
StartedAfterTimeout ==
    AtDecision /\ Since(call.pre.lastFailTime, call.time) > cb.resetTimeout

\* C1: with maxFailures = k >= 1, counting failing Calls in a row from a
\* Closed breaker with failures = 0: fewer than k leave it Closed, exactly k
\* leave it Open, and the next Call, started within resetTimeout of the last
\* failure, is rejected without invoking fn.
C1_OpensAtKthFailure ==
    cb.maxFailures >= 1 =>
        /\ (NoCallInProgress /\ consecFails >= 0 /\ consecFails < cb.maxFailures)
               => cb.state = Closed
        /\ (NoCallInProgress /\ consecFails = cb.maxFailures) => cb.state = Open
        /\ (consecFails = cb.maxFailures /\ call.pre.state = Open
              /\ StartedWithinTimeout) => Rejected
C1_Witness ==
    /\ cb.maxFailures = MaxThreshold
    /\ cb.maxFailures >= 2
    /\ consecFails = cb.maxFailures
    /\ cb.state = Open
    /\ call.kind = "call" /\ Rejected

\* C2: a Call that finds the breaker Open is rejected when it starts within
\* resetTimeout of lastFailTime; when it starts later it invokes fn once, and
\* fn runs with the breaker already HalfOpen and successCount = 0.
C2_OpenGate ==
    (call.kind = "call" /\ call.pre.state = Open) =>
        /\ StartedWithinTimeout => Rejected
        /\ StartedAfterTimeout =>
              /\ call.invoked = 1
              /\ call.status = "running"
              /\ call.fnState = HalfOpen
              /\ cb.state = HalfOpen
              /\ cb.successCount = 0
C2_Witness ==
    /\ call.kind = "call" /\ call.status = "running"
    /\ call.pre.state = Open /\ call.pre.successCount > 0
    /\ cb.state = HalfOpen

\* C3: a Call whose fn ran in HalfOpen and failed leaves the breaker Open,
\* failures one higher than before and lastFailTime at the time of the
\* failure; every Call started within resetTimeout of it is rejected.
C3_HalfOpenFailure ==
    /\ (call.kind = "call" /\ call.status = "returned"
          /\ call.fnState = HalfOpen /\ call.opres \in Errs)
         => /\ cb.state = Open
            /\ cb.failures = call.pre.failures + 1
            /\ cb.lastFailTime = call.time
            /\ probeFailedAt = call.time
    /\ (probeFailedAt >= 0 /\ AtDecision
          /\ call.time - probeFailedAt <= cb.resetTimeout) => Rejected
C3_Witness ==
    /\ probeFailedAt >= 0
    /\ call.kind = "call" /\ Rejected
    /\ call.time > probeFailedAt
    /\ cb.failures > cb.maxFailures

\* C4: counting successful Calls in a row from the Call that took the
\* breaker from Open to HalfOpen: after one and after two the breaker is
\* HalfOpen with successCount 1 and 2, after three it is Closed with
\* failures = 0.
C4_ThreeSuccessesClose ==
    /\ probeOk = 0 => (cb.state = HalfOpen /\ cb.successCount = 0 /\ ~NoCallInProgress)
    /\ NoCallInProgress =>
        /\ probeOk = 1 => (cb.state = HalfOpen /\ cb.successCount = 1)
        /\ probeOk = 2 => (cb.state = HalfOpen /\ cb.successCount = 2)
        /\ probeOk = 3 => (cb.state = Closed /\ cb.failures = 0)
    /\ probeOk \in -1..3
C4_Witness ==
    /\ probeOk = 3 /\ NoCallInProgress
    /\ cb.state = Closed
    /\ call.pre.failures >= 1

\* C5: a rejected Call leaves state, failures, lastFailTime and successCount
\* as they were and does not invoke fn.
C5_RejectionChangesNothing ==
    (call.kind = "call" /\ call.ret = ErrOpen) =>
        /\ Fields(cb) = call.pre
        /\ call.invoked = 0
        /\ call.opres = "none"
C5_Witness ==
    /\ call.kind = "call" /\ call.ret = ErrOpen
    /\ cb.failures >= 1 /\ cb.state = Open /\ cb.successCount >= 1

\* C6: when Reset returns the breaker is Closed with failures = 0 and
\* successCount = 0, and lastFailTime is what it was.
C6_Reset ==
    call.kind = "reset" =>
        /\ cb.state = Closed
        /\ cb.failures = 0
        /\ cb.successCount = 0
        /\ cb.lastFailTime = call.pre.lastFailTime
C6_Witness ==
    /\ call.kind = "reset"
    /\ call.pre.state = HalfOpen
    /\ call.pre.successCount >= 1
    /\ call.pre.failures >= 1
    /\ call.pre.lastFailTime # ZeroTime

\* C7: a Call that invoked fn returns fn's own result, a Call that did not
\* returns the breaker-open error, and only such a Call does.
C7_ResultPassThrough ==
    (call.kind = "call" /\ call.status = "returned") =>
        /\ call.invoked = 1 => (call.opres \in OpResults /\ call.ret = call.opres)
        /\ call.invoked = 0 <=> call.ret = ErrOpen
C7_Witness ==
    /\ call.kind = "call" /\ call.status = "returned"
    /\ call.invoked = 1 /\ call.ret = "errB"
    /\ call.fnState = HalfOpen

\* C8: while callers keep calling and the clock keeps running, an Open
\* breaker (with room left on the model's clock) leads to a Call that invokes
\* fn as a probe, unless a Reset closes the breaker first.
ProbeInvoked ==
    call.kind = "call" /\ call.invoked = 1 /\ call.pre.state = Open
C8_NoPermanentLockout ==
    (cb.state = Open /\ cb.lastFailTime + cb.resetTimeout < MaxTime)
        ~> (ProbeInvoked \/ call.kind = "reset")
C8_Witness ==
    /\ ProbeInvoked /\ call.status = "running"
    /\ cb.resetTimeout = MaxTimeout
    /\ call.time = call.pre.lastFailTime + cb.resetTimeout + 1

\* C9: between the start of a Call and its end the state stays as it was or
\* goes Closed -> Open, Open -> HalfOpen, HalfOpen -> Open or
\* HalfOpen -> Closed.
CallTransitions ==
    {<<Closed, Open>>, <<Open, HalfOpen>>, <<HalfOpen, Open>>, <<HalfOpen, Closed>>}
C9_CallTransitions ==
    call.kind = "call" =>
        \/ cb.state = call.pre.state
        \/ <<call.pre.state, cb.state>> \in CallTransitions
C9_Witness ==
    /\ call.kind = "call" /\ call.status = "returned"
    /\ call.pre.state = Open /\ cb.state = HalfOpen

\* C10: at most one goroutine is inside fn at any moment, also while the
\* breaker is HalfOpen.
InFn == {p \in Procs : pc[p] = "fn"}
C10_OneOperationAtATime ==
    /\ Cardinality(InFn) <= 1
    /\ InFn # {} => mutex \in InFn
C10_Witness ==
    /\ cb.state = HalfOpen
    /\ \E p, q \in Procs :
          /\ p # q
          /\ pc[p] = "fn"
          /\ pc[q] = "idle"
          /\ ~ENABLED CallEnter(q)

\* C11 (as stated): fn runs while the write lock is not held.
C11_FnRunsUnlocked ==
    \A p \in Procs : pc[p] = "fn" => mutex # p
\* C11 (amended): fn runs while its caller holds the write lock, so while
\* one caller is inside fn no other caller can pass the allow/deny decision.
C11_FnRunsLocked ==
    \A p \in Procs : pc[p] = "fn" =>
        /\ mutex = p
        /\ \A q \in Procs \ {p} : ~ENABLED CallEnter(q)
C11_Witness ==
    \E p, q \in Procs :
        /\ p # q
        /\ pc[p] = "fn" /\ mutex = p
        /\ pc[q] = "idle"
        /\ cb.state = Closed

\* C13: whenever the breaker is Open, failures >= maxFailures and
\* lastFailTime is not the zero time.
C13_OpenImpliesThreshold ==
    cb.state = Open =>
        /\ cb.failures >= cb.maxFailures
        /\ cb.lastFailTime # ZeroTime
C13_Witness ==
    /\ cb.state = Open
    /\ cb.maxFailures = MaxThreshold
    /\ cb.failures = cb.maxFailures
    /\ call.kind = "call" /\ call.status = "returned"
    /\ call.pre.state = Closed
    /\ cb.lastFailTime = call.time

\* C14: the state becomes HalfOpen only from Open, in a Call that goes on
\* to invoke fn and reads more than resetTimeout since lastFailTime; the
\* breaker has been Open since lastFailTime; a Call that reads exactly
\* resetTimeout is rejected.
C14_HalfOpenEntry ==
    /\ [][(cb'.state = HalfOpen /\ cb.state # HalfOpen) =>
            /\ cb.state = Open
            /\ Since(cb.lastFailTime, now) > cb.resetTimeout
            /\ call'.kind = "call" /\ call'.status = "running"
            /\ call'.invoked = 1]_vars
    /\ [][(cb'.state = Open /\ cb.state # Open) => cb'.lastFailTime = now]_vars
    /\ [][(cb'.state = Open /\ cb.state = Open) =>
              cb'.lastFailTime = cb.lastFailTime]_vars
    /\ []((call.kind = "call" /\ call.pre.state = Open /\ AtDecision
             /\ Since(call.pre.lastFailTime, call.time) = cb.resetTimeout)
           => Rejected)
C14_Witness ==
    /\ call.kind = "call" /\ Rejected
    /\ cb.resetTimeout = MaxTimeout /\ cb.resetTimeout >= 1
    /\ call.time - call.pre.lastFailTime = cb.resetTimeout

\* C15 (as stated): failures equals the number of failing invocations of fn
\* since the most recent successful invocation, construction or Reset.
C15_FailuresSinceAnySuccess == cb.failures = sinceSuccess
\* C15 (amended): failures equals the number of failing invocations of fn
\* since the most recent construction, Reset, success while Closed or success
\* that closed the breaker; a HalfOpen success that leaves the breaker
\* HalfOpen does not restart the count.
C15_FailuresSinceClear == cb.failures = sinceClear
C15_Witness ==
    /\ cb.state = HalfOpen /\ NoCallInProgress
    /\ cb.successCount = 2
    /\ cb.failures = sinceClear /\ sinceSuccess = 0
    /\ cb.failures > cb.maxFailures

\* C16 (as stated): whenever the breaker is Closed or Open and no Call is
\* in progress, successCount = 0.
C16_ZeroOutsideHalfOpen ==
    (NoCallInProgress /\ cb.state \in {Closed, Open}) => cb.successCount = 0
\* C16 (amended): successCount is set to 0 on entering HalfOpen and by Reset,
\* not on leaving HalfOpen: a failed HalfOpen Call leaves the Open breaker
\* with the count reached so far (0 for a failed first probe), closing leaves
\* the Closed breaker with SuccessThreshold, so Closed has 0 or
\* SuccessThreshold, and Open any count up to SuccessThreshold.
C16_CountKeptOnLeaving ==
    /\ (call.kind = "call" /\ call.status = "returned"
          /\ call.fnState = HalfOpen /\ call.opres \in Errs)
         => /\ cb.state = Open
            /\ cb.successCount =
                 IF call.pre.state = Open THEN 0 ELSE call.pre.successCount
    /\ (call.kind = "call" /\ call.status = "returned"
          /\ call.fnState = HalfOpen /\ call.opres = Nil)
         => /\ cb.successCount =
                 (IF call.pre.state = Open THEN 0 ELSE call.pre.successCount) + 1
            /\ cb.state = Closed <=> cb.successCount = SuccessThreshold
    /\ cb.state = Closed => cb.successCount \in {0, SuccessThreshold}
    /\ cb.state = HalfOpen => cb.successCount \in 0..(SuccessThreshold - 1)
    /\ cb.state = Open => cb.successCount \in 0..SuccessThreshold
C16_Witness ==
    /\ call.kind = "call" /\ call.status = "returned"
    /\ call.fnState = HalfOpen /\ call.opres \in Errs
    /\ cb.state = Open /\ cb.successCount = 2

\* C12: an accessor running concurrently with Calls and Resets returns the
\* value its field had at a moment when no Call was between its allow/deny
\* decision and its bookkeeping; it never reads while a Call is inside fn.
C12_AccessorsSeeNoCallMidway ==
    obs.acc # "none" =>
        /\ ~obs.midCall
        /\ obs.value = obs.quiet
        /\ obs.acc = "GetState" => obs.value \in {"closed", "open", "half-open"}
C12_Witness ==
    /\ obs.acc = "GetState" /\ obs.value = "half-open"
    /\ call.kind = "call" /\ call.status = "returned" /\ call.pre.state = Open

\* ---------------------------------------------------------- retry claims
Invocations == Len(trace)
AllFailed == \A i \in 1..Len(trace) : trace[i] \in Errs
SomeSucceeded == \E i \in 1..Len(trace) : trace[i] = Nil

\* C17: with MaxAttempts = n >= 1 and fn failing every time, WithRetry
\* invokes fn n times, sleeps after each failure but the n-th (n - 1 sleeps)
\* and returns an error naming the operation and n attempts.
C17_ExhaustsAfterN ==
    (config.MaxAttempts >= 1 /\ AllFailed) =>
        /\ Invocations <= config.MaxAttempts
        /\ rpc = "loop" =>
              /\ Invocations = attempt - 1
              /\ Invocations < config.MaxAttempts
              /\ Len(slept) = Invocations
        /\ rpc = "sleep" =>
              /\ Invocations = attempt
              /\ Invocations < config.MaxAttempts
              /\ Len(slept) = Invocations - 1
        /\ rpc = "done" =>
              /\ Invocations = config.MaxAttempts
              /\ Len(slept) = config.MaxAttempts - 1
              /\ result.kind = "exhausted"
              /\ result.operation = OperationName
              /\ result.attempts = config.MaxAttempts
C17_Witness ==
    /\ rpc = "done" /\ AllFailed
    /\ config.MaxAttempts = MaxRetryAttempts
    /\ Invocations = config.MaxAttempts
    /\ Len(slept) = config.MaxAttempts - 1
    /\ Len(slept) >= 2

\* C18: once fn succeeds, on attempt j <= n, WithRetry has invoked fn j
\* times, has slept j - 1 times, returns nil and neither sleeps nor invokes
\* fn again.
C18_StopsAtFirstSuccess ==
    /\ \A i \in 1..(Len(trace) - 1) : trace[i] \in Errs
    /\ (Len(trace) >= 1 /\ trace[Len(trace)] = Nil) =>
          /\ rpc = "done"
          /\ result = NoError
          /\ Invocations = attempt
          /\ Invocations <= config.MaxAttempts
          /\ Len(slept) = Invocations - 1
C18_Witness ==
    /\ rpc = "done" /\ result = NoError
    /\ Invocations = config.MaxAttempts
    /\ Invocations >= 2
    /\ Len(slept) = Invocations - 1

\* C19: WithRetry returns nil exactly when an invocation of fn succeeded;
\* otherwise it returns an error with the operation name and the attempt
\* count that wraps the error of the last invocation.
C19_ReturnValue ==
    rpc = "done" =>
        /\ result = NoError <=> SomeSucceeded
        /\ result # NoError =>
              /\ result.kind = "exhausted"
              /\ result.operation = OperationName
              /\ result.attempts = config.MaxAttempts
              /\ Invocations >= 1 => result.wraps = trace[Len(trace)]
C19_Witness ==
    /\ rpc = "done" /\ result.kind = "exhausted"
    /\ Invocations >= 2
    /\ trace[1] = "errA"
    /\ result.wraps = "errB"

\* the i-th delay as the formula gives it, times the denominator DelayDen(i)
DelayDen(i) == Pow(config.BackoffFactor.den, i - 1)
DelayTimesDen(i) ==
    Min(config.BaseDelay * Pow(config.BackoffFactor.num, i - 1),
        config.MaxDelay * DelayDen(i))

RECURSIVE SumSeq(_)
SumSeq(s) == IF s = <<>> THEN 0 ELSE Head(s) + SumSeq(Tail(s))

\* C21 (as stated): every delay slept between attempts is at most MaxDelay,
\* Jitter on or off, so a WithRetry whose attempts all failed has slept at
\* most (MaxAttempts - 1) * MaxDelay in total.
C21_DelayAtMostMax ==
    /\ \A i \in 1..Len(slept) : slept[i] <= config.MaxDelay
    /\ (config.MaxAttempts >= 1 /\ rpc = "done" /\ AllFailed)
           => SumSeq(slept) <= (config.MaxAttempts - 1) * config.MaxDelay

\* C22 (as stated): with Jitter on the delay slept after failed attempt i lies
\* in [0.9 * d, 1.1 * d] for d = min(BaseDelay * BackoffFactor^(i-1), MaxDelay),
\* and is never negative.
C22_WithinTenth ==
    config.Jitter =>
        \A i \in 1..Len(slept) :
            /\ 9 * DelayTimesDen(i) <= 10 * slept[i] * DelayDen(i)
            /\ 10 * slept[i] * DelayDen(i) <= 11 * DelayTimesDen(i)
            /\ slept[i] >= 0
\* C22 (amended): with Jitter on the delay slept after failed attempt i is a
\* value of [0.9 * d, 1.1 * d] with its fraction cut off: it is never
\* negative, at most 1.1 * d, and less than one Duration unit below 0.9 * d.
C22_WithinTenthTruncated ==
    config.Jitter =>
        \A i \in 1..Len(slept) :
            /\ 9 * DelayTimesDen(i) < 10 * (slept[i] + 1) * DelayDen(i)
            /\ 10 * slept[i] * DelayDen(i) <= 11 * DelayTimesDen(i)
            /\ slept[i] >= 0
C22_Witness ==
    /\ config.Jitter
    /\ Len(slept) >= 2
    /\ 10 * slept[1] * DelayDen(1) >= 9 * DelayTimesDen(1)
    /\ 0 < slept[2]
    /\ 10 * slept[2] * DelayDen(2) < 9 * DelayTimesDen(2)

\* C23: with Jitter off, BackoffFactor >= 1 and BaseDelay <= MaxDelay, no delay
\* slept is shorter than the one before it, and after a delay equal to MaxDelay
\* every later delay equals MaxDelay.
C23_Monotonic ==
    (/\ ~config.Jitter
     /\ config.BackoffFactor.num >= config.BackoffFactor.den
     /\ config.BaseDelay <= config.MaxDelay)
    => \A i, j \in 1..Len(slept) :
           i < j => /\ slept[i] <= slept[j]
                    /\ slept[i] = config.MaxDelay => slept[j] = config.MaxDelay
C23_Witness ==
    /\ ~config.Jitter
    /\ config.BackoffFactor.num > config.BackoffFactor.den
    /\ config.BaseDelay <= config.MaxDelay
    /\ Len(slept) >= 2
    /\ slept[1] < slept[2]
    /\ slept[2] = config.MaxDelay
    /\ config.BaseDelay * config.BackoffFactor.num
           > config.MaxDelay * config.BackoffFactor.den

\* C29: WithRetry with MaxAttempts <= 0 never invokes fn and never sleeps; it
\* returns at once, and what it returns is not nil: the failure that reports
\* MaxAttempts attempts and wraps a nil error.
C29_NoAttemptBudget ==
    config.MaxAttempts <= 0 =>
        /\ trace = <<>>
        /\ slept = <<>>
        /\ rpc \in {"loop", "done"}
        /\ rpc = "loop" => ENABLED RetryLoopExit
        /\ rpc = "done" => /\ result # NoError
                           /\ result.kind = "exhausted"
                           /\ result.attempts = config.MaxAttempts
                           /\ result.wraps = Nil
C29_Witness ==
    /\ config.MaxAttempts < 0
    /\ rpc = "done"
    /\ result = Exhausted(config, Nil)
    /\ Invocations = 0

\* C24: a successful Call made while Closed leaves failures at 0 and the
\* breaker Closed, and the breaker leaves Closed only when a failing fn
\* returns that completes a run of at least maxFailures failing Calls with no
\* successful Call (and no Reset) among them.
C24_OpensOnlyOnRun ==
    [][/\ (cb.state = Closed /\ cb'.state # Closed) =>
              /\ call'.opres \in Errs
              /\ sinceSuccess' >= cb.maxFailures
       /\ (InFn # {} /\ cb.state = Closed /\ call'.status = "returned"
               /\ call'.opres = Nil) =>
              /\ cb'.failures = 0
              /\ cb'.state = Closed]_vars
C24_Witness ==
    /\ call.kind = "call"
    /\ call.status = "returned"
    /\ call.opres = Nil
    /\ call.pre.state = Closed
    /\ call.pre.failures >= 1
    /\ call.pre.failures = cb.maxFailures - 1
    /\ cb.state = Closed
    /\ cb.failures = 0

\* C26: with maxFailures >= 1 and no Call in progress, the breaker is Closed
\* exactly when failures < maxFailures; and in Open and HalfOpen failures is at
\* least maxFailures at every moment.
C26_ClosedIffBelowThreshold ==
    cb.maxFailures >= 1 =>
        /\ NoCallInProgress => (cb.state = Closed <=> cb.failures < cb.maxFailures)
        /\ cb.state \in {Open, HalfOpen} => cb.failures >= cb.maxFailures
C26_Witness ==
    /\ cb.maxFailures >= 1
    /\ NoCallInProgress
    /\ cb.state = HalfOpen
    /\ cb.successCount >= 1
    /\ cb.failures > cb.maxFailures
    /\ call.opres = Nil
    /\ call.pre.failures = cb.failures

\* C27: successCount is always within 0..3; and when no Call is in progress
\* and the most recent Call did not end in a panic, a HalfOpen breaker has
\* successCount 1 or 2.
C27_SuccessCountRange ==
    /\ cb.successCount \in 0..SuccessThreshold
    /\ (NoCallInProgress /\ call.status # "panicked" /\ cb.state = HalfOpen)
           => cb.successCount \in 1..(SuccessThreshold - 1)
C27_Witness ==
    /\ NoCallInProgress
    /\ call.status = "returned"
    /\ cb.state = HalfOpen
    /\ cb.successCount = SuccessThreshold - 1

\* ------------------------------------------- simulateDBErrorHandler (main.go)
\* dbCircuit: circuit.New("database", 5, 30*time.Second), in seconds
DbMaxFailures == 5
DbResetTimeout == 30
\* for i := 0; i < 6; i++
SimCalls == 6

SimInit ==
    /\ BreakerInit({DbMaxFailures}, {DbResetTimeout})
    /\ RetryInit({DefaultConfig}, "off")
    /\ sim = NoSim

\* goroutine p starts serving a request for the handler
SimStart(p) ==
    /\ sim[p].at = "off"
    /\ pc[p] = "idle"
    /\ sim' = [sim EXCEPT ![p] = [at |-> "loop", i |-> 0, circuit_state |-> "none"]]
    /\ UNCHANGED <<bvars, rvars>>

\* app.dbCircuit.Call(func() error { return nil }), up to the function literal
SimCallEnter(p) ==
    /\ sim[p].at = "loop"
    /\ sim[p].i < SimCalls
    /\ CallBegin(p)
    /\ sim' = IF Rejects(cb, now) THEN [sim EXCEPT ![p].i = @ + 1] ELSE sim
    /\ UNCHANGED rvars

\* the function literal returns nil; i++
SimCallReturn(p) ==
    /\ sim[p].at = "loop"
    /\ CallEnd(p, Nil)
    /\ sim' = [sim EXCEPT ![p].i = @ + 1]
    /\ UNCHANGED rvars

\* the loop is over: "circuit_state": app.dbCircuit.GetState()
SimRespond(p) ==
    /\ sim[p].at = "loop"
    /\ sim[p].i >= SimCalls
    /\ pc[p] = "idle"
    /\ RLockFree(mutex)
    /\ sim' = [sim EXCEPT ![p] = [at |-> "done", i |-> sim[p].i,
                                  circuit_state |-> StateName(cb.state)]]
    /\ UNCHANGED <<bvars, rvars>>

\* the other users of dbCircuit: the /users handlers, whose database
\* operations may fail, and the handler that resets the breakers
UserCallEnter(p) == sim[p].at # "loop" /\ CallEnter(p)
UserCallReturn(p, r) ==
    /\ sim[p].at # "loop"
    /\ r # Nil => cb.failures <= DbMaxFailures
    /\ CallEnd(p, r)
    /\ UNCHANGED <<rvars, hvars>>
UserReset(p) == sim[p].at # "loop" /\ Reset(p)

SimNext ==
    \/ \E p \in Procs : SimStart(p)
    \/ \E p \in Procs : SimCallEnter(p)
    \/ \E p \in Procs : SimCallReturn(p)
    \/ \E p \in Procs : SimRespond(p)
    \/ \E p \in Procs : UserCallEnter(p)
    \/ \E p \in Procs, r \in OpResults : UserCallReturn(p, r)
    \/ \E p \in Procs : UserReset(p)
    \/ Tick

SimSpec == SimInit /\ [][SimNext]_vars

\* C25: when simulateDBErrorHandler has made its six Calls through the
\* database breaker (maxFailures 5), the breaker is open, and "open" is the
\* circuit_state its response reports.
C25_HandlerOpensBreaker ==
    \A p \in Procs :
        /\ (sim[p].at = "loop" /\ sim[p].i >= SimCalls) => cb.state = Open
        /\ sim[p].at = "done" => sim[p].circuit_state = "open"

\* ------------------------------------------------ fn calling the breaker
\* The methods fn can call on the breaker it runs under, by the lock they take
InnerCalls ==
    {[method |-> "Call", lock |-> "Lock"], [method |-> "Reset", lock |-> "Lock"],
     [method |-> "GetState", lock |-> "RLock"],
     [method |-> "GetFailures", lock |-> "RLock"],
     [method |-> "GetLastFailTime", lock |-> "RLock"],
     [method |-> "GetSuccessCount", lock |-> "RLock"]}

\* Inside fn, goroutine p calls a method of the same breaker, or is still
\* waiting in that call: the inner Lock or RLock goes through if the lock
\* lets it ("inner"), and waits otherwise ("blocked").
FnCallsBreaker(p, c) ==
    /\ pc[p] \in {"fn", "blocked"}
    /\ LET free == IF c.lock = "RLock" THEN RLockFree(mutex) ELSE LockFree(mutex) IN
       pc' = [pc EXCEPT ![p] = IF free THEN "inner" ELSE "blocked"]
    /\ UNCHANGED <<cb, mutex, now, call, consecFails, probeOk, probeFailedAt,
                   sinceSuccess, sinceClear, obs>>
    /\ UNCHANGED <<rvars, hvars>>

ReentNext ==
    \/ Next
    \/ \E p \in Procs, c \in InnerCalls : FnCallsBreaker(p, c)

ReentSpec == Init /\ [][ReentNext]_vars

Blocked == {p \in Procs : pc[p] = "blocked"}

\* C28: when fn calls Call, Reset or an accessor of the breaker it runs under,
\* the inner call never gets the lock: the goroutine stays blocked in it for
\* good, holding the lock of the outer Call, which therefore never returns, and
\* from then on no Call, Reset or accessor of any goroutine can proceed.
C28_ReentrantCallDeadlocks ==
    /\ [](\A p \in Procs : pc[p] # "inner")
    /\ [](\A p \in Blocked :
             /\ mutex = p
             /\ \A q \in Procs :
                    /\ ~ENABLED CallEnter(q)
                    /\ ~ENABLED CallReturn(q, Nil)
                    /\ ~ENABLED CallPanic(q)
                    /\ ~ENABLED Reset(q)
                    /\ ~ENABLED GetState(q)
                    /\ ~ENABLED GetFailures(q)
                    /\ ~ENABLED GetLastFailTime(q)
                    /\ ~ENABLED GetSuccessCount(q))
    /\ [][\A p \in Blocked : pc'[p] = "blocked" /\ mutex' = p /\ cb' = cb]_vars
C28_Witness ==
    \E p \in Blocked :
        /\ mutex = p
        /\ call.status = "running"
        /\ call.time < now
        /\ \E q \in Procs : pc[q] = "idle"

\* ------------------------------------- WithRetry around breaker.Call
\* WithRetry(operation, config, func() error { return cb.Call(op) }), run by
\* one goroutine on a breaker nobody else uses
Retrier == 1

\* resetTimeout values drawn: a short one and one longer than some backoffs
CompTimeouts == {MaxTimeout, LongDelay}

\* the configs with MaxAttempts positive and BaseDelay <= MaxDelay
CompConfigs ==
    {c \in Configs : c.MaxAttempts >= 1 /\ c.BaseDelay <= c.MaxDelay}

CompInit ==
    /\ BreakerInit(1..MaxThreshold, CompTimeouts)
    /\ RetryInit(CompConfigs, "loop")
    /\ sim = NoSim

\* fn is invoked and calls cb.Call: rejected, which ends the attempt with the
\* breaker-open error, or on to op
CompCallEnter(k) ==
    /\ rpc = "loop"
    /\ LoopContinues(config, attempt)
    /\ CallBegin(Retrier)
    /\ IF Rejects(cb, now) THEN AttemptStep(ErrOpen, k) ELSE UNCHANGED rvars
    /\ UNCHANGED hvars

\* op returns r, Call returns it, and so does fn
CompCallReturn(r, k) ==
    /\ CallEnd(Retrier, r)
    /\ AttemptStep(CallResult(r), k)
    /\ UNCHANGED hvars

\* time.Sleep(delay): the clock is delay further on
CompSleep ==
    /\ SleepStep
    /\ now' = now + delay
    /\ UNCHANGED <<cb, mutex, pc, call, consecFails, probeOk, probeFailedAt,
                   sinceSuccess, sinceClear, obs>>
    /\ UNCHANGED hvars

\* op takes time: none or one unit of the clock
CompTick == pc[Retrier] = "fn" /\ call.time = now /\ Tick

CompNext ==
    \/ \E k \in Rands(config) : CompCallEnter(k)
    \/ \E r \in OpResults, k \in Rands(config) : CompCallReturn(r, k)
    \/ CompSleep
    \/ CompTick

CompSpec == CompInit /\ [][CompNext]_vars

\* the attempts in which op was invoked: the others were rejected by the breaker
OpInvoked == {i \in 1..Len(trace) : trace[i] # ErrOpen}

====
